---- MODULE Spec2Model ----
(***************************************************************************)
(* Model of the SNMP application-layer session tracker                     *)
(* (rust/src/snmp/snmp.rs): SNMPState with its transaction list, version   *)
(* and tx counter, the parse entry point with the two message handlers,    *)
(* lookup / free by id, event tagging and the resumable tx iterator.       *)
(*                                                                         *)
(* The byte-level decoders (der_parser::parse_der_sequence and             *)
(* snmp_parser::parse_snmp_generic_message) are external crates: a buffer  *)
(* is represented by what those two decoders return for it.                *)
(***************************************************************************)
EXTENDS Integers, Sequences, FiniteSets, TLC

VARIABLES
    version,        \* SNMPState.version : u32 (0 = not yet set)
    transactions,   \* SNMPState.transactions : Vec<SNMPTransaction>
    tx_id,          \* SNMPState.tx_id : u64
    last,           \* the last host call and what it returned
    decoded,        \* history: number of buffers decoded successfully so far
    live,           \* history: external ids created and not yet freed
    istate,         \* the host's iterator cursor (*state of get_tx_iterator)
    it_min,         \* min_tx_id of the iteration in progress
    it_out,         \* results returned so far by the iteration in progress
    it_done,        \* the iteration in progress got "not found"
    it_mut          \* what changed the session since the iteration started

vars == <<version, transactions, tx_id, last, decoded, live,
          istate, it_min, it_out, it_done, it_mut>>

sessionVars == <<version, transactions, tx_id>>
iterVars == <<istate, it_min, it_out, it_done>>

----------------------------------------------------------------------------
(* Bounds of the model *)

\* parse stops creating transactions once tx_id has reached MaxTx
MaxTx == 2
\* the iteration runs stop creating transactions once tx_id has reached MaxIterTx
MaxIterTx == 3
\* a decode failure is only delivered while the transactions of the session
\* hold fewer MalformedData events than this
MaxMalformed == 1
\* the prober is given inputs of up to MaxProbeLen bytes
MaxProbeLen == 13
\* a detection state is attached only while fewer transactions of the
\* session than this carry one
MaxDetect == 1

----------------------------------------------------------------------------
(* Option<T> as a sequence of length at most one *)

None == <<>>
Some(x) == <<x>>

\* #[derive(AppLayerEvent)] enum SNMPEvent, `event as u8`
MalformedData == 0
UnknownSecurityModel == 1
VersionMismatch == 2

----------------------------------------------------------------------------
(* Inputs: a buffer is described by the outcome of the two external        *)
(* decoders run on it.                                                     *)
(*   der   : parse_der_sequence -> "seq" (Ok, a Sequence), "incomplete",   *)
(*           "error"                                                       *)
(*   nelem : number of elements of the outer sequence                      *)
(*   first : v[0].as_u32() when it is Ok, else -1                          *)
(*   msg   : parse_snmp_generic_message -> None (Err) or Some(message)     *)
(***************************************************************************)

Communities == {"public"}
UserNames == {"admin"}

\* SnmpPdu as read by add_pdu_info: the variant, its pdu_type, err (Generic),
\* the trap triple (TrapV1) and the oids of vars_iter()
GenericPdu ==
    [variant |-> "Generic", pdu_type |-> "GetRequest", err |-> "NoError",
     trap |-> None, vars |-> <<"oid1", "oid2">>]
TrapPdu ==
    [variant |-> "TrapV1", pdu_type |-> "TrapV1", err |-> "NoError",
     trap |-> Some(<<"coldStart", "enterprise", "agent">>), vars |-> <<"oid1">>]

\* SnmpMessage (V1 / V2): version is the wire version, 0 or 1
V12Messages ==
    { [kind |-> "V1", version |-> 0, community |-> c,
       pdu |-> Some(TrapPdu), usm |-> None, usm_params |-> FALSE] : c \in Communities }
    \cup
    { [kind |-> "V2", version |-> 1, community |-> c,
       pdu |-> Some(GenericPdu), usm |-> None, usm_params |-> FALSE] : c \in Communities }

\* SnmpV3Message: version 3, data Plaintext(pdu) or Encrypted, security_params
\* USM(user) or another model
V3Messages ==
    { [kind |-> "V3", version |-> 3, community |-> "",
       pdu |-> p, usm |-> u, usm_params |-> (u # None)]
      : p \in {None, Some(GenericPdu)},
        u \in {None} \cup {Some(n) : n \in UserNames} }

Messages == V12Messages \cup V3Messages

\* the version the envelope carries for a message that decodes
WireVersion(m) == m.version
NElem(m) == IF m.kind = "V3" THEN 4 ELSE 3

Envelopes ==
    { [der |-> "seq", nelem |-> n, first |-> f] : n \in {3, 4}, f \in {0, 1, 3} }
    \cup { [der |-> d, nelem |-> 0, first |-> -1] : d \in {"incomplete", "error"} }

\* Both decoders read the same bytes: when the message decodes and the
\* outer sequence is valid DER, the sequence has the message's element count
\* and leading integer.  A message in BER that is not DER (for instance a
\* long-form length) decodes while parse_der_sequence fails.
Buffers ==
    { [der |-> e.der, nelem |-> e.nelem, first |-> e.first, msg |-> None] : e \in Envelopes }
    \cup
    { [der |-> "seq", nelem |-> NElem(m), first |-> WireVersion(m), msg |-> Some(m)]
      : m \in Messages }
    \cup
    { [der |-> "error", nelem |-> 0, first |-> -1, msg |-> Some(m)] : m \in Messages }

----------------------------------------------------------------------------
(* SNMPTransaction *)

\* SNMPTransaction::new(version, id)
SNMPTransaction_new(v, id) ==
    [version |-> v, info |-> None, community |-> None, usm |-> None,
     encrypted |-> FALSE, id |-> id, de_state |-> None, events |-> <<>>]

\* core::sc_app_layer_decoder_events_set_event_raw(&mut tx.events, ev)
set_event_raw(events, ev) == Append(events, ev)

\* SNMPState::set_event_tx
set_event_tx(tx, event) == [tx EXCEPT !.events = set_event_raw(tx.events, event)]

\* SNMPState::add_pdu_info
add_pdu_info(pdu, tx) ==
    LET pdu_info == [pdu_type |-> pdu.pdu_type,
                     err |-> IF pdu.variant = "Generic" THEN pdu.err ELSE "NoError",
                     trap_type |-> IF pdu.variant = "TrapV1" THEN pdu.trap ELSE None,
                     vars |-> pdu.vars]
    IN [tx EXCEPT !.info = Some(pdu_info)]

\* SNMPState::new_tx: self.tx_id += 1
new_tx_id(cur) == cur + 1

\* new_tx handing out the counter as it was before the increment
new_tx_stale_id(state_version, cur) == SNMPTransaction_new(state_version, cur)

\* SNMPState::new_tx: the transaction gets the incremented counter as its id
new_tx(state_version, cur) == SNMPTransaction_new(state_version, new_tx_id(cur))

----------------------------------------------------------------------------
(* SNMPState as a record [version, transactions, tx_id]; every method      *)
(* returns the state it leaves, with its return value in field ret.        *)

SNMPState_new == [version |-> 0, transactions |-> <<>>, tx_id |-> 0]

\* SNMPState::free: self.transactions.clear()
SNMPState_free(S) ==
    [version |-> S.version, transactions |-> <<>>, tx_id |-> S.tx_id]

\* the DetectEngineState references the host attaches
DetectStates == {"attached"}

\* rs_snmp_state_set_tx_detect_state: tx.de_state = Some(de_state)
set_tx_detect_state(tx, ds) == [tx EXCEPT !.de_state = Some(ds)]

\* Vec::last_mut / Vec::remove / iter().position
Last(s) == s[Len(s)]
Count(s, x) == Cardinality({i \in 1..Len(s) : s[i] = x})
RECURSIVE Malformed(_)
Malformed(txs) ==
    IF txs = <<>> THEN 0
    ELSE Count(txs[1].events, MalformedData) + Malformed(Tail(txs))
RemoveAt(s, idx) == [i \in 1..(Len(s) - 1) |-> IF i < idx THEN s[i] ELSE s[i + 1]]

\* the version a v1 / v2c message is compared under: msg.version + 1
v12_version(msg) == msg.version + 1

\* handle_snmp_v12 putting the new transaction at the front of the list
handle_snmp_v12_push_front(S, msg) ==
    LET tx0 == new_tx(S.version, S.tx_id)
        tx1 == IF S.version # v12_version(msg)
               THEN set_event_tx(tx0, VersionMismatch) ELSE tx0
        tx2 == add_pdu_info(msg.pdu[1], tx1)
        tx3 == [tx2 EXCEPT !.community = Some(msg.community)]
    IN [version |-> S.version, transactions |-> <<tx3>> \o S.transactions,
        tx_id |-> new_tx_id(S.tx_id), ret |-> 0]

\* SNMPState::handle_snmp_v12
handle_snmp_v12(S, msg) ==
    LET tx0 == new_tx(S.version, S.tx_id)
        tx1 == IF S.version # v12_version(msg)
               THEN set_event_tx(tx0, VersionMismatch) ELSE tx0
        tx2 == add_pdu_info(msg.pdu[1], tx1)
        tx3 == [tx2 EXCEPT !.community = Some(msg.community)]
    IN [version |-> S.version, transactions |-> Append(S.transactions, tx3),
        tx_id |-> new_tx_id(S.tx_id), ret |-> 0]

\* handle_snmp_v3 leaving the security parameters unread when the scoped
\* PDU is encrypted
handle_snmp_v3_encrypted_returns(S, msg) ==
    LET tx0 == new_tx(S.version, S.tx_id)
        tx1 == IF S.version # msg.version
               THEN set_event_tx(tx0, VersionMismatch) ELSE tx0
        tx2 == IF msg.pdu # None THEN add_pdu_info(msg.pdu[1], tx1)
               ELSE [tx1 EXCEPT !.encrypted = TRUE]
        tx3 == IF msg.pdu = None THEN tx2
               ELSE IF msg.usm_params THEN [tx2 EXCEPT !.usm = Some(msg.usm[1])]
               ELSE set_event_tx(tx2, UnknownSecurityModel)
    IN [version |-> S.version, transactions |-> Append(S.transactions, tx3),
        tx_id |-> new_tx_id(S.tx_id), ret |-> 0]

\* SNMPState::handle_snmp_v3
handle_snmp_v3(S, msg) ==
    LET tx0 == new_tx(S.version, S.tx_id)
        tx1 == IF S.version # msg.version
               THEN set_event_tx(tx0, VersionMismatch) ELSE tx0
        tx2 == IF msg.pdu # None THEN add_pdu_info(msg.pdu[1], tx1)
               ELSE [tx1 EXCEPT !.encrypted = TRUE]
        tx3 == IF msg.usm_params THEN [tx2 EXCEPT !.usm = Some(msg.usm[1])]
               ELSE set_event_tx(tx2, UnknownSecurityModel)
    IN [version |-> S.version, transactions |-> Append(S.transactions, tx3),
        tx_id |-> new_tx_id(S.tx_id), ret |-> 0]

\* set_event tagging the first transaction of the list instead of the last
set_event_first(txs, event) ==
    IF txs # <<>>
    THEN [txs EXCEPT ![1].events = set_event_raw(txs[1].events, event)]
    ELSE txs

\* set_event dropping the PDU summary of the transaction it tags
set_event_resets_info(txs, event) ==
    IF txs # <<>>
    THEN [txs EXCEPT ![Len(txs)].events = set_event_raw(txs[Len(txs)].events, event),
                     ![Len(txs)].info = None]
    ELSE txs

\* SNMPState::set_event: the event goes to the last transaction of the list
set_event(txs, event) ==
    IF txs # <<>>
    THEN [txs EXCEPT ![Len(txs)].events = set_event_raw(txs[Len(txs)].events, event)]
    ELSE txs

\* parse_pdu_enveloppe_version reading the leading integer without the
\* v.len() tests
parse_pdu_enveloppe_version_any_len(b) ==
    IF b.der = "seq"
    THEN IF b.first = 0 THEN [tag |-> "Ok", val |-> 1]
         ELSE IF b.first = 1 THEN [tag |-> "Ok", val |-> 2]
         ELSE IF b.first = 3 THEN [tag |-> "Ok", val |-> 3]
         ELSE [tag |-> "Error", val |-> 0]
    ELSE IF b.der = "incomplete" THEN [tag |-> "Incomplete", val |-> 0]
    ELSE [tag |-> "Error", val |-> 0]

\* parse_pdu_enveloppe_version: Ok(version), Incomplete or Error
parse_pdu_enveloppe_version(b) ==
    IF b.der = "seq"
    THEN IF b.nelem = 3 /\ b.first = 0 THEN [tag |-> "Ok", val |-> 1]
         ELSE IF b.nelem = 3 /\ b.first = 1 THEN [tag |-> "Ok", val |-> 2]
         ELSE IF b.nelem = 4 /\ b.first = 3 THEN [tag |-> "Ok", val |-> 3]
         ELSE [tag |-> "Error", val |-> 0]
    ELSE IF b.der = "incomplete" THEN [tag |-> "Incomplete", val |-> 0]
    ELSE [tag |-> "Error", val |-> 0]

\* the Err(_e) arm dropping the session's transactions
parse_err_clears(S) ==
    [version |-> S.version, transactions |-> <<>>, tx_id |-> S.tx_id, ret |-> -1]

\* SNMPState::parse, the Err(_e) arm: set_event(MalformedData), return -1
parse_err(S) ==
    [version |-> S.version,
     transactions |-> set_event(S.transactions, MalformedData),
     tx_id |-> S.tx_id, ret |-> -1]

\* parse taking the version from the envelope of every buffer, not only
\* while self.version == 0
parse_always_probes(S, b) ==
    LET env == parse_pdu_enveloppe_version(b)
        S1 == IF env.tag = "Ok" THEN [S EXCEPT !.version = env.val] ELSE S
    IN IF b.msg # None
       THEN IF b.msg[1].kind \in {"V1", "V2"}
            THEN handle_snmp_v12(S1, b.msg[1])
            ELSE handle_snmp_v3(S1, b.msg[1])
       ELSE parse_err(S1)

\* SNMPState::parse
parse(S, b) ==
    LET env == parse_pdu_enveloppe_version(b)
        S1 == IF S.version = 0 /\ env.tag = "Ok"
              THEN [S EXCEPT !.version = env.val] ELSE S
    IN IF b.msg # None
       THEN IF b.msg[1].kind \in {"V1", "V2"}
            THEN handle_snmp_v12(S1, b.msg[1])
            ELSE handle_snmp_v3(S1, b.msg[1])
       ELSE parse_err(S1)

\* the lookup predicate without the 0-based to 1-based translation
id_matches_raw(tx, ext_id) == tx.id = ext_id

\* the predicate of get_tx_by_id and free_tx: tx.id == tx_id + 1
id_matches(tx, ext_id) == tx.id = ext_id + 1

\* get_tx_by_id taking the id as a place in the list
get_tx_by_index(txs, ext_id) ==
    IF ext_id + 1 <= Len(txs) THEN Some(txs[ext_id + 1]) ELSE None

\* SNMPState::get_tx_by_id: iter().rev().find(..), None or Some(tx)
get_tx_by_id(txs, ext_id) ==
    LET hits == {i \in 1..Len(txs) : id_matches(txs[i], ext_id)}
    IN IF hits = {} THEN None
       ELSE Some(txs[CHOOSE i \in hits : \A j \in hits : j <= i])

\* iter().position(..) of free_tx: 0 for None, else the first matching place
free_tx_position(txs, ext_id) ==
    LET hits == {i \in 1..Len(txs) : id_matches(txs[i], ext_id)}
    IN IF hits = {} THEN 0
       ELSE CHOOSE i \in hits : \A j \in hits : i <= j

\* free_tx with Vec::swap_remove: the last transaction takes the freed place
free_tx_swap_remove(txs, ext_id) ==
    LET idx == free_tx_position(txs, ext_id)
    IN IF idx # 0
       THEN [i \in 1..(Len(txs) - 1) |-> IF i = idx THEN txs[Len(txs)] ELSE txs[i]]
       ELSE txs

\* debug_assert!(cond): the outcomes the build can produce.  0: the call goes
\* on (the condition holds, or the assertion is compiled out as in a release
\* build); -1: the assertion fails and the thread panics (debug build)
debug_assert(cond) == IF cond THEN {0} ELSE {0, -1}

\* SNMPState::free_tx
free_tx(txs, ext_id) ==
    LET idx == free_tx_position(txs, ext_id)
    IN IF idx # 0 THEN RemoveAt(txs, idx) ELSE txs

\* the count taken as the length of the list
rs_snmp_state_get_tx_count_len(S) == Len(S.transactions)

\* rs_snmp_state_get_tx_count
rs_snmp_state_get_tx_count(S) == S.tx_id

\* the cursor left on the returned place itself
iter_next_state_stuck(index) == index

\* what get_tx_iterator leaves in *state for the place (0-based) it returns
iter_next_state(index) == index + 1

\* has_next counting the returned transaction itself
iter_has_next_off(len, index) == (len - index) > 0

\* the has_next flag of get_tx_iterator: (len - index) > 1
iter_has_next(len, index) == (len - index) > 1

\* the skip test also skipping the transaction whose id is min_tx_id
iter_skips_inclusive(tx, min_tx_id) == tx.id <= min_tx_id + 1

\* get_tx_iterator's skip test: tx.id < min_tx_id + 1
iter_skips(tx, min_tx_id) == tx.id < min_tx_id + 1

\* the while loop of get_tx_iterator from 0-based place index
RECURSIVE iter_scan(_, _, _, _)
iter_scan(txs, min_tx_id, index, state) ==
    IF index < Len(txs)
    THEN IF iter_skips(txs[index + 1], min_tx_id)
         THEN iter_scan(txs, min_tx_id, index + 1, state)
         ELSE [found |-> TRUE, tx |-> Some(txs[index + 1]),
               id |-> txs[index + 1].id - 1,
               has_next |-> iter_has_next(Len(txs), index),
               state |-> iter_next_state(index)]
    ELSE [found |-> FALSE, tx |-> None, id |-> 0, has_next |-> FALSE, state |-> state]

\* SNMPState::get_tx_iterator(min_tx_id, &mut state)
get_tx_iterator(txs, min_tx_id, state) == iter_scan(txs, min_tx_id, state, state)

----------------------------------------------------------------------------
(* The protocol prober *)

\* AppProto values (u16).  ALPROTO_UNKNOWN and ALPROTO_FAILED come from
\* crate::core, ALPROTO_SNMP is the id the registration allocated and stored;
\* the three are distinct and only their distinctness is used.
ALPROTO_UNKNOWN == 0
ALPROTO_SNMP == 1
ALPROTO_FAILED == 2

\* the length test of rs_snmp_probing_parser: slice.len() < 4
MinProbeLen == 4

\* the smallest DER encoding of a sequence of n elements whose first is an
\* integer (first >= 0) or any other object: 2 bytes of header, 3 for an
\* integer, 2 for any other element
MinSeqLen(n, first) ==
    IF n = 0 THEN 2
    ELSE 2 + (IF first >= 0 THEN 3 ELSE 2) + 2 * (n - 1)

\* the input lengths probed: empty, just below and at the length test, and
\* the longest
ProbeLens == {0, MinProbeLen - 1, MinProbeLen, MaxProbeLen}

\* what parse_der_sequence can return for an input of len bytes
ProbeInputs ==
    { [len |-> l, der |-> "incomplete", nelem |-> 0, first |-> -1] : l \in ProbeLens }
    \cup
    { [len |-> l, der |-> "error", nelem |-> 0, first |-> -1] : l \in ProbeLens \ {0} }
    \cup
    { [len |-> t[1], der |-> "seq", nelem |-> t[2], first |-> t[3]] :
        t \in { u \in ProbeLens \X (0..5) \X (-1..3) :
                   /\ u[2] = 0 => u[3] = -1
                   /\ u[1] >= MinSeqLen(u[2], u[3]) } }

\* rs_snmp_probing_parser
rs_snmp_probing_parser(p) ==
    IF p.len < MinProbeLen THEN ALPROTO_FAILED
    ELSE LET r == parse_pdu_enveloppe_version(p)
         IN IF r.tag = "Ok" THEN ALPROTO_SNMP
            ELSE IF r.tag = "Incomplete" THEN ALPROTO_UNKNOWN
            ELSE ALPROTO_FAILED

----------------------------------------------------------------------------
(* The host's calls *)

State == [version |-> version, transactions |-> transactions, tx_id |-> tx_id]

ExtIds == 0..MaxIterTx
Cursors == 0..(MaxIterTx + 1)

Call(op, ret) == [op |-> op, ret |-> ret]

ReturnedIds == {it_out[i].id : i \in 1..Len(it_out)}

\* the debug_assert! of free_tx failed: the thread panicked, no call follows
Panicked == last = Call("free", -1)

\* rs_snmp_state_free ran: the session is dropped, no call follows
Dropped == last = Call("state_free", 0)

\* the number of transactions that carry a detection state
Detected(txs) == Cardinality({i \in 1..Len(txs) : txs[i].de_state # None})

Init ==
    /\ version = SNMPState_new.version
    /\ transactions = SNMPState_new.transactions
    /\ tx_id = SNMPState_new.tx_id
    /\ last = Call("new", 0)
    /\ decoded = 0
    /\ live = {}
    /\ istate = 0
    /\ it_min = 0
    /\ it_out = <<>>
    /\ it_done = FALSE
    /\ it_mut = "none"

\* rs_snmp_parse_request / rs_snmp_parse_response: state.parse(buf, direction),
\* delivered while the counter is below cap
ParseUpTo(b, cap) ==
    /\ ~Panicked /\ ~Dropped
    /\ b.msg # None => tx_id < cap
    /\ b.msg = None =>
         (IF transactions = <<>> THEN TRUE
          ELSE Malformed(transactions) < MaxMalformed)
    /\ LET R == parse(State, b)
       IN /\ version' = R.version
          /\ transactions' = R.transactions
          /\ tx_id' = R.tx_id
          /\ last' = Call("parse", R.ret)
    /\ decoded' = IF b.msg # None THEN decoded + 1 ELSE decoded
    /\ live' = IF b.msg # None THEN live \cup {decoded} ELSE live
    /\ it_mut' = "other"
    /\ UNCHANGED iterVars

Parse(b) == ParseUpTo(b, MaxTx)

\* rs_snmp_state_tx_free: state.free_tx(tx_id); free_tx returns nothing, the
\* value recorded is the outcome of its debug_assert!(tx != None)
FreeTx(e) ==
    /\ ~Panicked /\ ~Dropped
    /\ transactions' = free_tx(transactions, e)
    /\ \E fault \in debug_assert(free_tx_position(transactions, e) # 0) :
         last' = Call("free", fault)
    /\ live' = live \ {e}
    /\ it_mut' = IF it_mut # "other" /\ e \in ReturnedIds THEN "freed_returned" ELSE "other"
    /\ UNCHANGED <<version, tx_id, decoded>>
    /\ UNCHANGED iterVars

\* rs_snmp_state_get_tx: state.get_tx_by_id(tx_id)
GetTx(e) ==
    /\ ~Panicked /\ ~Dropped
    /\ LET r == get_tx_by_id(transactions, e)
       IN last' = Call("get", IF r # None THEN 1 ELSE 0)
    /\ UNCHANGED <<sessionVars, decoded, live, it_mut>>
    /\ UNCHANGED iterVars

\* rs_snmp_state_get_tx_count
GetTxCount ==
    /\ ~Panicked /\ ~Dropped
    /\ last' = Call("count", rs_snmp_state_get_tx_count(State))
    /\ UNCHANGED <<sessionVars, decoded, live, it_mut>>
    /\ UNCHANGED iterVars

\* the host probes an input: rs_snmp_probing_parser(input, input_len)
Probe(p) ==
    /\ ~Panicked /\ ~Dropped
    /\ last' = Call("probe", rs_snmp_probing_parser(p))
    /\ UNCHANGED <<sessionVars, decoded, live, it_mut>>
    /\ UNCHANGED iterVars

\* the host starts an iteration: a fresh cursor (0) and a minimum id
IterStart(min) ==
    /\ ~Panicked /\ ~Dropped
    /\ it_min' = min
    /\ istate' = 0
    /\ it_out' = <<>>
    /\ it_done' = FALSE
    /\ it_mut' = "none"
    /\ last' = Call("iter_start", 0)
    /\ UNCHANGED <<sessionVars, decoded, live>>

\* rs_snmp_get_tx_iterator: state.get_tx_iterator(min_tx_id, istate), the
\* cursor passed back as the previous call left it
IterNext ==
    /\ ~Panicked /\ ~Dropped
    /\ ~it_done
    /\ LET r == get_tx_iterator(transactions, it_min, istate)
       IN /\ istate' = r.state
          /\ it_out' = IF r.found
                       THEN Append(it_out, [id |-> r.id, has_next |-> r.has_next])
                       ELSE it_out
          /\ it_done' = ~r.found
          /\ last' = Call("iter", IF r.found THEN 1 ELSE 0)
    /\ UNCHANGED <<sessionVars, decoded, live, it_min, it_mut>>

\* rs_snmp_state_set_tx_detect_state on the transaction a lookup or the
\* iterator returned under external id e
SetTxDetectState(e, ds) ==
    /\ ~Panicked /\ ~Dropped
    /\ free_tx_position(transactions, e) # 0
    /\ Detected(transactions) < MaxDetect
    /\ LET idx == free_tx_position(transactions, e)
       IN transactions' =
            [transactions EXCEPT ![idx] = set_tx_detect_state(transactions[idx], ds)]
    /\ last' = Call("set_de_state", 0)
    /\ UNCHANGED <<version, tx_id, decoded, live, it_mut>>
    /\ UNCHANGED iterVars

\* rs_snmp_state_free: SNMPState::free(), then the state is dropped
StateFree ==
    /\ ~Panicked /\ ~Dropped
    /\ LET R == SNMPState_free(State)
       IN /\ version' = R.version
          /\ transactions' = R.transactions
          /\ tx_id' = R.tx_id
    /\ last' = Call("state_free", 0)
    /\ live' = {}
    /\ it_mut' = "other"
    /\ UNCHANGED decoded
    /\ UNCHANGED iterVars

\* The session with every kind of buffer, up to MaxTx transactions
Next ==
    \/ \E b \in Buffers : Parse(b)
    \/ \E e \in 0..MaxTx : FreeTx(e)
    \/ \E e \in 0..MaxTx : GetTx(e)
    \/ GetTxCount
    \/ StateFree

Spec == Init /\ [][Next]_vars

\* The buffers of the iteration runs: a v1 and a v3 message whose envelope is
\* read, and a buffer that does not decode
IterBuffers ==
    { b \in Buffers :
        \/ b.msg = None /\ b.der = "error"
        \/ b.msg # None /\ b.der = "seq" /\ b.msg[1].kind = "V1"
        \/ b.msg # None /\ b.der = "seq" /\ b.msg[1].kind = "V3"
                        /\ b.msg[1].pdu # None /\ b.msg[1].usm_params }

\* The session under iteration: parse, free and the iterator calls of one
\* host iteration interleaved, up to MaxIterTx transactions
NextIter ==
    \/ \E b \in IterBuffers : ParseUpTo(b, MaxIterTx)
    \/ \E e \in ExtIds : FreeTx(e)
    \/ \E min \in ExtIds : IterStart(min)
    \/ IterNext
    \/ StateFree

SpecIter == Init /\ [][NextIter]_vars

\* Every call on a session: parse, free, the lookups and the iterator, up
\* to MaxTx transactions
NextCalls ==
    \/ \E b \in IterBuffers : Parse(b)
    \/ \E e \in 0..MaxTx : FreeTx(e)
    \/ \E e \in 0..MaxTx : GetTx(e)
    \/ GetTxCount
    \/ \E min \in 0..MaxTx : IterStart(min)
    \/ IterNext
    \/ \E e \in 0..MaxTx, ds \in DetectStates : SetTxDetectState(e, ds)
    \/ StateFree

SpecCalls == Init /\ [][NextCalls]_vars

\* The prober and the parser on one flow: the host probes inputs and
\* delivers buffers, up to MaxTx transactions
NextProbe ==
    \/ \E p \in ProbeInputs : Probe(p)
    \/ \E b \in Buffers : Parse(b)
    \/ StateFree

SpecProbe == Init /\ [][NextProbe]_vars

----------------------------------------------------------------------------
(* Properties of transaction creation and ids *)

\* a step that delivered a buffer which decoded / which did not decode
DecodedStep == last'.op = "parse" /\ decoded' = decoded + 1
FailedStep == last'.op = "parse" /\ decoded' = decoded

\* the version of a decoded message, normalized: wire 0 -> 1 (v1),
\* wire 1 -> 2 (v2c), 3 -> 3 (v3)
NormalizedVersion(m) == IF m.kind = "V3" THEN m.version ELSE m.version + 1

Prefix(s, n) == [i \in 1..n |-> s[i]]
Ids(txs) == {txs[i].id : i \in 1..Len(txs)}
HasEvent(tx, ev) == \E i \in 1..Len(tx.events) : tx.events[i] = ev

\* C1: the k-th buffer that decodes creates exactly one transaction, appended
\* at the end of the list, with internal id k; no other step changes the
\* counter or adds a transaction, whatever was freed or failed before.
C1_KthDecodeGetsIdK ==
    [][ /\ DecodedStep =>
             /\ Len(transactions') = Len(transactions) + 1
             /\ Prefix(transactions', Len(transactions)) = transactions
             /\ Last(transactions').id = decoded'
             /\ tx_id' = decoded'
        /\ ~DecodedStep =>
             /\ tx_id' = tx_id
             /\ Ids(transactions') \subseteq Ids(transactions) ]_vars

\* the third decoded buffer got id 3 after both earlier transactions were
\* freed, and it carries an anomaly
C1_Witness ==
    /\ decoded = 3
    /\ Len(transactions) = 1
    /\ transactions[1].id = 3
    /\ transactions[1].events # <<>>
    /\ last.op = "parse" /\ last.ret = 0

----------------------------------------------------------------------------
(* Properties of the iterator *)

\* C2: an iteration from a fresh cursor with min_id 0 and no change to the
\* session in between returns the transactions of the list one by one in list
\* (ascending id) order, has_more true on all but the last; it ends only when
\* all were returned, and a fresh call with min_id = last id + 1 finds nothing.
C2_IterateAllOnce ==
    (it_min = 0 /\ it_mut = "none") =>
        LET n == Len(it_out)
            N == Len(transactions)
        IN /\ n <= N
           /\ \A i \in 1..n :
                /\ it_out[i].id = transactions[i].id - 1
                /\ it_out[i].has_next = (i < N)
           /\ \A i, j \in 1..n : i < j => it_out[i].id < it_out[j].id
           /\ it_done => n = N
           /\ (n = N /\ N > 0) =>
                ~get_tx_iterator(transactions, it_out[N].id + 1, 0).found

\* a finished iteration over a session of two transactions, one freed earlier
C2_Witness ==
    /\ it_min = 0 /\ it_mut = "none" /\ it_done
    /\ Len(it_out) = 2
    /\ tx_id = 3
    /\ last.op = "iter" /\ last.ret = 0

\* C3 (as claimed): when only transactions already returned were freed during
\* the iteration, a finished iteration has returned every transaction still
\* in the session with id >= min_id, in ascending order without repeats.
C3_FreeReturnedKeepsRest ==
    (it_mut \in {"none", "freed_returned"} /\ it_done) =>
        /\ \A i \in 1..Len(transactions) :
             transactions[i].id >= it_min + 1 =>
                (transactions[i].id - 1) \in ReturnedIds
        /\ \A i, j \in 1..Len(it_out) : i < j => it_out[i].id < it_out[j].id

\* C4: whatever the iterator returns, from any cursor and any min_id, is the
\* transaction get_tx_by_id finds under the returned id and the one free_tx
\* removes under it; the only transaction of a session that decoded one
\* buffer has external id 0.
C4_IdTranslationAgrees ==
    /\ \A min \in ExtIds, c \in Cursors :
         LET r == get_tx_iterator(transactions, min, c)
             rest == free_tx(transactions, r.id)
         IN r.found =>
              /\ get_tx_by_id(transactions, r.id) = r.tx
              /\ Len(rest) = Len(transactions) - 1
              /\ \A i \in 1..Len(transactions) :
                   (transactions[i] # r.tx[1]) <=>
                   (\E j \in 1..(Len(transactions) - 1) :
                        rest[j] = transactions[i])
    /\ (decoded = 1 /\ transactions # <<>>) =>
         /\ get_tx_iterator(transactions, 0, 0).id = 0
         /\ get_tx_by_id(transactions, 0) = Some(transactions[1])
         /\ free_tx(transactions, 0) = <<>>

\* the iterator returned the transaction of external id 2, the 2nd of the list
C4_Witness ==
    /\ last.op = "iter" /\ last.ret = 1
    /\ Len(it_out) = 2 /\ it_out[2].id = 2
    /\ Len(transactions) = 2
    /\ transactions[2].id = 3

----------------------------------------------------------------------------
(* Properties of free_tx and get_tx_by_id *)

\* C5: free_tx of an id the session holds removes exactly that transaction;
\* the others keep their fields, events and order, and version and counter
\* stay as they were.
C5_FreeRemovesExactlyOne ==
    [][ \A e \in ExtIds :
          (last'.op = "free" /\ (e + 1) \in Ids(transactions) /\ FreeTx(e)) =>
             /\ \E i \in 1..Len(transactions) :
                  /\ transactions[i].id = e + 1
                  /\ Len(transactions') = Len(transactions) - 1
                  /\ \A j \in 1..(i - 1) : transactions'[j] = transactions[j]
                  /\ \A j \in i..(Len(transactions) - 1) :
                       transactions'[j] = transactions[j + 1]
             /\ (e + 1) \notin Ids(transactions')
             /\ version' = version
             /\ tx_id' = tx_id ]_vars

\* the middle one of three transactions was freed; the two left keep their
\* places, the last with its anomaly
C5_Witness ==
    /\ last.op = "free" /\ last.ret = 0
    /\ tx_id = 3
    /\ Len(transactions) = 2
    /\ transactions[1].id = 1 /\ transactions[2].id = 3
    /\ transactions[2].events # <<>>

\* C6: get_tx_by_id(id) finds a transaction exactly for the ids created and
\* not freed, and the one it finds has that id.
C6_GetFindsLiveIds ==
    \A e \in 0..(MaxTx + 1) :
        LET r == get_tx_by_id(transactions, e)
        IN /\ (r # None) <=> (e \in live)
           /\ r # None => r[1].id = e + 1

\* a lookup found id 1 after id 0 was freed
C6_Witness ==
    /\ last.op = "get" /\ last.ret = 1
    /\ live = {1}
    /\ decoded = 2

----------------------------------------------------------------------------
(* Properties of the message handlers and of decode failures *)

\* C7 (as claimed, for a session whose version is set): the transaction built
\* from a decoded message has that message's normalized version.
C7_TxVersionIsMessageVersion ==
    [][ \A b \in Buffers :
          (b.msg # None /\ version # 0 /\ Parse(b)) =>
             Last(transactions').version = NormalizedVersion(b.msg[1]) ]_vars

\* C8 (as claimed): VersionMismatch is tagged exactly when the message's
\* version differs from the session's; the transaction is appended all the
\* same with its community and PDU summary; and the first decoded message of
\* a session with no version yet sets the session's version to its own and
\* is not tagged.
C8_MismatchAndFirstMessage ==
    [][ \A b \in Buffers :
          (b.msg # None /\ Parse(b)) =>
             LET m == b.msg[1]
                 tx == Last(transactions')
             IN /\ HasEvent(tx, VersionMismatch) <=> (NormalizedVersion(m) # version')
                /\ Len(transactions') = Len(transactions) + 1
                /\ m.kind \in {"V1", "V2"} =>
                     (tx.community = Some(m.community) /\ tx.info # None)
                /\ version = 0 =>
                     (version' = NormalizedVersion(m) /\ ~HasEvent(tx, VersionMismatch)) ]_vars

\* C9: a buffer that does not decode adds MalformedData to the transaction
\* created last among those in the session and changes nothing else in the
\* list; with no transaction in the session nothing is created.
C9_MalformedGoesToNewest ==
    [][ FailedStep =>
          IF transactions = <<>> THEN transactions' = <<>>
          ELSE \E i \in 1..Len(transactions) :
                 /\ \A j \in 1..Len(transactions) : transactions[j].id <= transactions[i].id
                 /\ transactions' =
                      [transactions EXCEPT ![i].events = Append(@, MalformedData)] ]_vars

\* a failed buffer tagged the second transaction and not the first
C9_Witness ==
    /\ last.op = "parse" /\ last.ret = -1
    /\ Len(transactions) = 2
    /\ HasEvent(transactions[2], MalformedData)
    /\ ~HasEvent(transactions[1], MalformedData)

\* C10: a buffer that does not decode makes parse return -1 and leaves the
\* counter and the transactions in the session as they are; a buffer that
\* decodes, also after failures, makes parse return 0 and appends a
\* transaction with the next id.
C10_FailureIsNotFatal ==
    [][ /\ FailedStep =>
             /\ last'.ret = -1
             /\ tx_id' = tx_id
             /\ Len(transactions') = Len(transactions)
             /\ \A i \in 1..Len(transactions) : transactions'[i].id = transactions[i].id
        /\ DecodedStep =>
             /\ last'.ret = 0
             /\ tx_id' = tx_id + 1
             /\ Len(transactions') = Len(transactions) + 1
             /\ Last(transactions').id = tx_id + 1 ]_vars

\* a buffer decoded and got id 2 after a failed buffer had tagged transaction 1
C10_Witness ==
    /\ last.op = "parse" /\ last.ret = 0
    /\ Len(transactions) = 2
    /\ HasEvent(transactions[1], MalformedData)
    /\ transactions[2].id = 2

----------------------------------------------------------------------------
(* Properties of the session version *)

\* C11 (as claimed): a buffer that does not decode leaves an unset version
\* unset, and once a buffer has decoded the version is set.
C11_VersionSetByFirstDecode ==
    [][ /\ (FailedStep /\ version = 0) => version' = 0
        /\ DecodedStep => version' # 0 ]_vars

\* C12: once the version is set no call changes it.
C12_VersionNeverChanges ==
    [][ version # 0 => version' = version ]_vars

\* on a session of version 1 a v3 message was parsed (and tagged), the
\* iterator and a lookup ran, a transaction was freed: the version is still 1
C12_Witness ==
    /\ version = 1
    /\ decoded = 2
    /\ Len(transactions) = 1
    /\ HasEvent(transactions[1], VersionMismatch)
    /\ Len(it_out) = 1
    /\ last.op = "get"

----------------------------------------------------------------------------
(* Properties of the prober *)

\* C13 (as claimed): for every input shorter than 4 bytes the prober returns
\* Undetermined (ALPROTO_UNKNOWN), never Rejected and never Detected.
C13_ShortInputUndetermined ==
    [][ \A p \in ProbeInputs :
          (last'.op = "probe" /\ p.len < MinProbeLen /\ Probe(p)) =>
             last'.ret = ALPROTO_UNKNOWN ]_vars

\* C14: for an input of at least 4 bytes the prober's result is determined by
\* the outer envelope: 3 elements led by integer 0 is detected (v1), led by 1
\* (v2c), 4 elements led by 3 (v3); every other sequence is rejected;
\* insufficient bytes is undetermined; any other decode error is rejected.
\* What a probe call returned is one of the three results.
C14_ProbeByEnvelope ==
    /\ \A p \in ProbeInputs :
         p.len >= MinProbeLen =>
            LET r == rs_snmp_probing_parser(p)
                v == parse_pdu_enveloppe_version(p)
            IN /\ (p.der = "seq" /\ p.nelem = 3 /\ p.first = 0) =>
                    (r = ALPROTO_SNMP /\ v.tag = "Ok" /\ v.val = 1)
               /\ (p.der = "seq" /\ p.nelem = 3 /\ p.first = 1) =>
                    (r = ALPROTO_SNMP /\ v.tag = "Ok" /\ v.val = 2)
               /\ (p.der = "seq" /\ p.nelem = 4 /\ p.first = 3) =>
                    (r = ALPROTO_SNMP /\ v.tag = "Ok" /\ v.val = 3)
               /\ (/\ p.der = "seq"
                   /\ ~(p.nelem = 3 /\ p.first \in {0, 1})
                   /\ ~(p.nelem = 4 /\ p.first = 3)) =>
                    r = ALPROTO_FAILED
               /\ p.der = "incomplete" => r = ALPROTO_UNKNOWN
               /\ p.der = "error" => r = ALPROTO_FAILED
    /\ last.op = "probe" =>
         last.ret \in {ALPROTO_SNMP, ALPROTO_UNKNOWN, ALPROTO_FAILED}

\* an input was detected as SNMP by the prober on a session that holds a
\* transaction
C14_Witness ==
    /\ last.op = "probe"
    /\ last.ret = ALPROTO_SNMP
    /\ Len(transactions) = 1

----------------------------------------------------------------------------
(* Further properties of the iterator, the count and free_tx *)

\* the places (1-based) at or after cursor c whose external id is not below min
Qualifying(txs, min, c) ==
    {i \in (c + 1)..Len(txs) : txs[i].id - 1 >= min}

\* C15: for every min_id and every cursor, get_tx_iterator returns the first
\* transaction at or after the cursor whose id is not below min_id, leaves the
\* cursor just past it and reports has_next exactly when another transaction
\* with id >= min_id remains after it; when there is none it returns nothing
\* and leaves the cursor as it was.  No id returned by the iteration in
\* progress is below its min_id.
C15_NextContract ==
    /\ \A min \in ExtIds, c \in Cursors :
         LET r == get_tx_iterator(transactions, min, c)
             Q == Qualifying(transactions, min, c)
         IN IF Q = {}
            THEN ~r.found /\ r.tx = None /\ r.state = c
            ELSE LET i == CHOOSE k \in Q : \A j \in Q : k <= j
                 IN /\ r.found
                    /\ r.tx = Some(transactions[i])
                    /\ r.id = transactions[i].id - 1
                    /\ r.id >= min
                    /\ r.state = i
                    /\ r.has_next = (\E j \in Q : j > i)
    /\ \A k \in 1..Len(it_out) : it_out[k].id >= it_min

\* with min_id 1 the iterator skipped external id 0 and returned id 1, the
\* last of the list, leaving the cursor past it
C15_Witness ==
    /\ last.op = "iter" /\ last.ret = 1
    /\ it_min = 1
    /\ Len(transactions) = 2
    /\ transactions[1].id = 1 /\ transactions[2].id = 2
    /\ it_out = <<[id |-> 1, has_next |-> FALSE]>>
    /\ istate = 2

\* C16: the count is the number of transactions ever created (the counter),
\* not the length of the list: 0 for a new session, one more for each buffer
\* that decoded, unchanged by a failed buffer and by free_tx.
C16_CountIsCounter ==
    /\ rs_snmp_state_get_tx_count(State) = decoded
    /\ last.op = "count" => last.ret = decoded
    /\ last.op = "new" => rs_snmp_state_get_tx_count(State) = 0

\* the count is 2 after both transactions were freed
C16_Witness ==
    /\ last.op = "count" /\ last.ret = 2
    /\ transactions = <<>>
    /\ live = {}

\* C17 (as claimed): free_tx of an id the session does not hold removes
\* nothing, leaves the session as it is, and raises a fault (the assertion
\* fails) instead of returning as if it had succeeded.
C17_FreeAbsentIsFault ==
    [][ \A e \in ExtIds :
          (last'.op = "free" /\ (e + 1) \notin Ids(transactions) /\ FreeTx(e)) =>
             /\ UNCHANGED sessionVars
             /\ last'.ret = -1 ]_vars

----------------------------------------------------------------------------
(* Properties of the v3 handler *)

\* C18: for a v3 message the transaction reflects the scoped PDU and the
\* security parameters independently: encrypted is set and the PDU summary is
\* absent exactly when the scoped PDU is not plaintext; the user name is set
\* and UnknownSecurityModel not tagged exactly when the security parameters
\* are USM, otherwise UnknownSecurityModel is tagged and the user name is
\* absent; the transaction is appended in every case.
C18_V3FieldsIndependent ==
    [][ \A b \in Buffers :
          IF b.msg = None THEN TRUE
          ELSE (b.msg[1].kind = "V3" /\ last'.op = "parse" /\ Parse(b)) =>
                 LET m == b.msg[1]
                     tx == Last(transactions')
                 IN /\ Len(transactions') = Len(transactions) + 1
                    /\ tx.id = tx_id'
                    /\ tx.encrypted <=> (m.pdu = None)
                    /\ (tx.info = None) <=> (m.pdu = None)
                    /\ m.usm_params =>
                         /\ tx.usm = Some(m.usm[1])
                         /\ ~HasEvent(tx, UnknownSecurityModel)
                    /\ ~m.usm_params =>
                         /\ tx.usm = None
                         /\ HasEvent(tx, UnknownSecurityModel) ]_vars

\* an encrypted v3 message with security parameters that are not USM: the
\* transaction is there, encrypted, without summary, tagged
C18_Witness ==
    /\ last.op = "parse" /\ last.ret = 0
    /\ Len(transactions) = 2
    /\ transactions[2].encrypted
    /\ transactions[2].info = None
    /\ transactions[2].usm = None
    /\ HasEvent(transactions[2], UnknownSecurityModel)
    /\ transactions[1].encrypted
    /\ transactions[1].usm = Some("admin")
    /\ transactions[1].events = <<>>

----------------------------------------------------------------------------
(* Invariants of the transaction list *)

\* C19: the list is sorted by strictly increasing id (no id twice), every id
\* lies between 1 and the counter, the list is no longer than the counter,
\* and a lookup by id matches at most one transaction, the same one from
\* either end of the list.
C19_ListSortedUnique ==
    /\ \A i, j \in 1..Len(transactions) :
         i < j => transactions[i].id < transactions[j].id
    /\ Ids(transactions) \subseteq 1..tx_id
    /\ Len(transactions) <= tx_id
    /\ \A e \in ExtIds :
         /\ Cardinality({i \in 1..Len(transactions) : id_matches(transactions[i], e)}) <= 1
         /\ get_tx_by_id(transactions, e) # None =>
              transactions[free_tx_position(transactions, e)] = get_tx_by_id(transactions, e)[1]

\* a v1 and a v3 transaction with ids 1 and 2, found by a lookup
C19_Witness ==
    /\ tx_id = 2
    /\ Len(transactions) = 2
    /\ transactions[1].id = 1 /\ transactions[2].id = 2
    /\ transactions[1].community # None
    /\ transactions[2].usm # None
    /\ last.op = "get" /\ last.ret = 1

\* C20: a call that returns a transaction leaves the cursor strictly larger
\* and at most the length of the list, so an iteration over an unchanged list
\* returns at most (length) transactions; and has_next tells what the next
\* call (same min_id, the cursor as left) does: a transaction after TRUE,
\* nothing after FALSE.
C20_IterationEnds ==
    /\ \A min \in ExtIds, c \in Cursors :
         LET r == get_tx_iterator(transactions, min, c)
         IN r.found =>
              /\ r.state > c
              /\ r.state <= Len(transactions)
              /\ get_tx_iterator(transactions, min, r.state).found = r.has_next
    /\ it_mut = "none" =>
         /\ Len(it_out) <= Len(transactions)
         /\ istate <= Len(transactions)
         /\ (it_out # <<>> /\ ~it_out[Len(it_out)].has_next) =>
              ~get_tx_iterator(transactions, it_min, istate).found
         /\ (it_out # <<>> /\ it_out[Len(it_out)].has_next) =>
              get_tx_iterator(transactions, it_min, istate).found

\* an iteration over two transactions returned both, the first with
\* has_next, the second without, and the next call returned nothing
C20_Witness ==
    /\ it_done /\ it_mut = "none"
    /\ it_min = 0
    /\ Len(transactions) = 2
    /\ Len(it_out) = 2
    /\ it_out[1].has_next /\ ~it_out[2].has_next
    /\ last.op = "iter" /\ last.ret = 0

----------------------------------------------------------------------------
(* Frame properties *)

\* the fields of a transaction other than its events and detection state
Core(tx) ==
    [version |-> tx.version, info |-> tx.info, community |-> tx.community,
     usm |-> tx.usm, encrypted |-> tx.encrypted, id |-> tx.id]

\* C21: the lookup by id, the count and the iterator leave the session's
\* version, counter and transaction list (every field and event of every
\* transaction) as they are, the iterator writing only the caller's cursor;
\* and no call changes the fields, other than events and detection state, of
\* a transaction that stays in the session.
C21_ReadsChangeNothing ==
    [][ /\ last'.op \in {"get", "count", "iter", "iter_start"} =>
             UNCHANGED sessionVars
        /\ \A i \in 1..Len(transactions) :
             \A j \in 1..Len(transactions') :
                transactions'[j].id = transactions[i].id =>
                   Core(transactions'[j]) = Core(transactions[i]) ]_vars

\* the iterator returned the transaction of id 2, tagged by a failed buffer
\* after it was pushed, given a detection state and left alone in the list by
\* a free: it still has its PDU summary
C21_Witness ==
    /\ last.op = "iter" /\ last.ret = 1
    /\ decoded = 2
    /\ Len(transactions) = 1
    /\ transactions[1].id = 2
    /\ HasEvent(transactions[1], MalformedData)
    /\ transactions[1].info # None
    /\ transactions[1].de_state = Some("attached")
    /\ it_out = <<[id |-> 1, has_next |-> FALSE]>>

====
